---- MODULE Spec2Model ----
(***************************************************************************)
(* Model of scripts/build_dataset.py: the run of main() that loads a       *)
(* 19-entry mapping, builds the (country, year, indicator) value store     *)
(* from a zipped csv, enriches a guide worksheet with the delta columns    *)
(* and gov_expected_changes, and saves it.                                 *)
(*                                                                         *)
(* Text is a sequence of one-character strings, so that strip, lower,      *)
(* upper and replace are computed character by character.  A Python float  *)
(* is an exact rational [num, den] in lowest terms with den > 0.  A cell   *)
(* value is None, Str(text) or a number.                                   *)
(***************************************************************************)
EXTENDS Integers, Sequences, FiniteSets, TLC

\* ------------------------------------------------------------------ text

LowerAlphabet ==
    <<"a","b","c","d","e","f","g","h","i","j","k","l","m",
      "n","o","p","q","r","s","t","u","v","w","x","y","z">>

UpperAlphabet ==
    <<"A","B","C","D","E","F","G","H","I","J","K","L","M",
      "N","O","P","Q","R","S","T","U","V","W","X","Y","Z">>

DigitChars == <<"0","1","2","3","4","5","6","7","8","9">>

Whitespace == {" ", "\t", "\n", "\r"}

IsDigitChar(c) == \E i \in DOMAIN DigitChars : DigitChars[i] = c

DigitValue(c) == (CHOOSE i \in DOMAIN DigitChars : DigitChars[i] = c) - 1

LowerChar(c) ==
    IF \E i \in DOMAIN UpperAlphabet : UpperAlphabet[i] = c
    THEN LowerAlphabet[CHOOSE i \in DOMAIN UpperAlphabet : UpperAlphabet[i] = c]
    ELSE c

UpperChar(c) ==
    IF \E i \in DOMAIN LowerAlphabet : LowerAlphabet[i] = c
    THEN UpperAlphabet[CHOOSE i \in DOMAIN LowerAlphabet : LowerAlphabet[i] = c]
    ELSE c

\* str.lower()
Lower(s) == [i \in DOMAIN s |-> LowerChar(s[i])]

\* str.upper()
Upper(s) == [i \in DOMAIN s |-> UpperChar(s[i])]

\* str.replace(a, b) for one-character a and b
Replace(s, a, b) == [i \in DOMAIN s |-> IF s[i] = a THEN b ELSE s[i]]

\* str.strip()
Strip(s) ==
    LET keep == {i \in DOMAIN s : s[i] \notin Whitespace}
    IN  IF keep = {} THEN <<>>
        ELSE LET lo == CHOOSE i \in keep : \A j \in keep : i <= j
                 hi == CHOOSE i \in keep : \A j \in keep : j <= i
             IN  SubSeq(s, lo, hi)

\* sub in s
Contains(s, sub) ==
    \E i \in 1..(Len(s) - Len(sub) + 1) : SubSeq(s, i, i + Len(sub) - 1) = sub

\* s.endswith(suf)
EndsWith(s, suf) ==
    /\ Len(suf) <= Len(s)
    /\ SubSeq(s, Len(s) - Len(suf) + 1, Len(s)) = suf

\* str.isdigit(): non-empty and every character a digit
IsDigit(s) == s # <<>> /\ \A i \in DOMAIN s : IsDigitChar(s[i])

\* -------------------------------------------------------------- numbers

Abs(n) == IF n < 0 THEN -n ELSE n

RECURSIVE Gcd(_, _)
Gcd(a, b) == IF b = 0 THEN a ELSE Gcd(b, a % b)

\* the rational n/d (d # 0) in lowest terms
Rat(n, d) ==
    LET g == Gcd(Abs(n), Abs(d))
        s == IF d < 0 THEN -1 ELSE 1
    IN  [num |-> s * (n \div g), den |-> s * (d \div g)]

RatInt(n) == [num |-> n, den |-> 1]

RatAdd(a, b) == Rat(a.num * b.den + b.num * a.den, a.den * b.den)

RatSub(a, b) == Rat(a.num * b.den - b.num * a.den, a.den * b.den)

RatMul(a, b) == Rat(a.num * b.num, a.den * b.den)

\* int(x): truncation toward zero
RatTrunc(a) == IF a.num < 0 THEN -((-a.num) \div a.den) ELSE a.num \div a.den

RECURSIVE Pow10(_)
Pow10(k) == IF k = 0 THEN 1 ELSE 10 * Pow10(k - 1)

\* value of a digit string
RECURSIVE DigitsValue(_)
DigitsValue(s) ==
    IF s = <<>> THEN 0
    ELSE 10 * DigitsValue(SubSeq(s, 1, Len(s) - 1)) + DigitValue(s[Len(s)])

\* decimal digits of n >= 0
RECURSIVE DigitsOf(_)
DigitsOf(n) ==
    IF n < 10 THEN <<DigitChars[n + 1]>>
    ELSE DigitsOf(n \div 10) \o <<DigitChars[(n % 10) + 1]>>

\* ------------------------------------------------------------ cell values

None == [t |-> "none"]

Str(s) == [t |-> "str", s |-> s]

Num(q) == [t |-> "num", num |-> q.num, den |-> q.den]

NumOf(v) == [num |-> v.num, den |-> v.den]

\* str(v).  An integral number prints as an int; any other number prints its
\* decimal expansion, cut after ReprDigits fractional digits.
ReprDigits == 17

RECURSIVE FracDigits(_, _, _)
FracDigits(rem, den, k) ==
    IF rem = 0 \/ k = 0 THEN <<>>
    ELSE <<DigitChars[((rem * 10) \div den) + 1]>>
         \o FracDigits((rem * 10) % den, den, k - 1)

StrNum(q) ==
    LET sign == IF q.num < 0 THEN <<"-">> ELSE <<>>
        n    == Abs(q.num)
    IN  IF q.den = 1 THEN sign \o DigitsOf(n)
        ELSE sign \o DigitsOf(n \div q.den) \o <<".">>
                  \o FracDigits(n % q.den, q.den, ReprDigits)

StrOf(v) ==
    IF v.t = "str" THEN v.s
    ELSE IF v.t = "num" THEN StrNum(NumOf(v))
    ELSE <<"N","o","n","e">>

\* float(s) for s stripped and non-empty: an optional sign, then digits with at
\* most one decimal point and at least one digit.  None stands for ValueError.
ParseFloat(s) ==
    LET signed == s[1] \in {"+", "-"}
        body   == IF signed THEN Tail(s) ELSE s
        dots   == {i \in DOMAIN body : body[i] = "."}
        wellformed ==
            /\ Cardinality(dots) <= 1
            /\ \A i \in DOMAIN body : body[i] = "." \/ IsDigitChar(body[i])
            /\ \E i \in DOMAIN body : IsDigitChar(body[i])
    IN  IF ~wellformed THEN None
        ELSE LET dot  == IF dots = {} THEN Len(body) + 1 ELSE CHOOSE i \in dots : TRUE
                 ip   == SubSeq(body, 1, dot - 1)
                 fp   == SubSeq(body, dot + 1, Len(body))
                 mag  == DigitsValue(ip) * Pow10(Len(fp)) + DigitsValue(fp)
                 sgn  == IF s[1] = "-" THEN -1 ELSE 1
             IN  Num(Rat(sgn * mag, Pow10(Len(fp))))

\* _safe_float
safe_float(x) ==
    IF x = None THEN None
    ELSE LET s == Strip(StrOf(x))
         IN  IF s = <<>> THEN None ELSE ParseFloat(s)

\* ------------------------------------------------------------- csv tables

\* A csv.DictReader: fieldnames and rows of text cells.  A row shorter than
\* the header reads None for the missing fields; a header name that occurs
\* twice reads the last of its cells.
HasField(csv, name) == \E i \in DOMAIN csv.fieldnames : csv.fieldnames[i] = name

FieldIndex(csv, name) ==
    CHOOSE i \in DOMAIN csv.fieldnames :
        /\ csv.fieldnames[i] = name
        /\ \A j \in DOMAIN csv.fieldnames : csv.fieldnames[j] = name => j <= i

\* row.get(name, default)
RowGet(csv, row, name, default) ==
    IF ~HasField(csv, name) THEN default
    ELSE IF FieldIndex(csv, name) > Len(row) THEN None
    ELSE Str(row[FieldIndex(csv, name)])

\* (v or "")
OrEmpty(v) == IF v = None THEN <<>> ELSE v.s

\* ------------------------------------------------------------ load_mapping

DELTA_COL == <<"d","e","l","t","a","_","c","o","l">>

INDICATOR_CODE == <<"i","n","d","i","c","a","t","o","r","_","c","o","d","e">>

DIRECTION == <<"d","i","r","e","c","t","i","o","n">>

MappingSize == 19

\* what one reader row yields: the stripped delta_col and indicator, and the
\* direction, 1.0 when _safe_float gives None
MappingEntry(csv, row) ==
    LET direction == safe_float(RowGet(csv, row, DIRECTION, Str(<<"1">>)))
    IN  [delta_col |-> Strip(OrEmpty(RowGet(csv, row, DELTA_COL, None))),
         indicator |-> Strip(OrEmpty(RowGet(csv, row, INDICATOR_CODE, None))),
         direction |-> IF direction # None THEN NumOf(direction) ELSE RatInt(1)]

\* the loop over reader rows: a row with an empty delta_col or indicator is
\* skipped (`continue`), every other row is appended in order
MappingRows(csv) ==
    SelectSeq([n \in DOMAIN csv.rows |-> MappingEntry(csv, csv.rows[n])],
              LAMBDA e : ~(e.delta_col = <<>> \/ e.indicator = <<>>))

\* load_mapping with the count check weakened to "fewer than 19"
load_mapping_mut(csv) ==
    LET out == MappingRows(csv)
    IN  IF Len(out) < MappingSize
        THEN [error |-> "mapping_count", out |-> <<>>]
        ELSE [error |-> "none", out |-> out]

load_mapping(csv) ==
    LET out == MappingRows(csv)
    IN  IF Len(out) # MappingSize
        THEN [error |-> "mapping_count", out |-> <<>>]
        ELSE [error |-> "none", out |-> out]

\* ------------------------------------------------- load_wb_values_from_zip

DOT_CSV == <<".","c","s","v">>

METADATA == <<"m","e","t","a","d","a","t","a">>

API_ == <<"a","p","i","_">>

DATA == <<"d","a","t","a">>

COUNTRY_CODE_SP == <<"c","o","u","n","t","r","y"," ","c","o","d","e">>

COUNTRY_CODE_US == <<"c","o","u","n","t","r","y","_","c","o","d","e">>

INDICATOR_CODE_SP == <<"i","n","d","i","c","a","t","o","r"," ","c","o","d","e">>

\* An archive is a sequence of members [name, csv]; namelist() is their names.
IsCsvName(n) == EndsWith(Lower(n), DOT_CSV)

IsGoodName(n) ==
    /\ ~Contains(Lower(n), METADATA)
    /\ (Contains(Lower(n), API_) \/ Contains(Lower(n), DATA))

\* the member find_data_csv_in_zip names; ok is FALSE for FileNotFoundError
find_data_csv_in_zip(zf) ==
    LET candidates == SelectSeq(zf, LAMBDA m : IsCsvName(m.name))
        good       == SelectSeq(candidates, LAMBDA m : IsGoodName(m.name))
    IN  IF candidates = <<>> THEN [ok |-> FALSE, member |-> None]
        ELSE [ok |-> TRUE,
              member |-> IF good # <<>> THEN good[1] ELSE candidates[1]]

IsCountryHeader(c) ==
    \/ Lower(c) = COUNTRY_CODE_SP
    \/ Replace(Lower(c), " ", "_") = COUNTRY_CODE_US

IsIndicatorHeader(c) ==
    \/ Lower(c) = INDICATOR_CODE_SP
    \/ Replace(Lower(c), " ", "_") = INDICATOR_CODE

\* the loop over reader.fieldnames: the first field name that is a country
\* header, the first that is an indicator header; None if there is none
CountryCol(fieldnames) ==
    LET hits == {i \in DOMAIN fieldnames : IsCountryHeader(fieldnames[i])}
    IN  IF hits = {} THEN None
        ELSE Str(fieldnames[CHOOSE i \in hits : \A j \in hits : i <= j])

IndicatorCol(fieldnames) ==
    LET hits == {i \in DOMAIN fieldnames : IsIndicatorHeader(fieldnames[i])}
    IN  IF hits = {} THEN None
        ELSE Str(fieldnames[CHOOSE i \in hits : \A j \in hits : i <= j])

YearCols(fieldnames) == SelectSeq(fieldnames, LAMBDA c : IsDigit(Strip(c)))

\* values[k] = v
Put(values, k, v) == (k :> v) @@ values

\* values.get(k)
Lookup(values, country, year, indicator) ==
    IF <<country, year, indicator>> \in DOMAIN values
    THEN Num(values[<<country, year, indicator>>])
    ELSE None

\* the loop over year_cols for one row: what the row's first k year columns
\* write into values
RECURSIVE StoreYears(_, _, _, _, _, _)
StoreYears(csv, row, country, indicator, year_cols, k) ==
    IF k = 0 THEN <<>>
    ELSE LET before == StoreYears(csv, row, country, indicator, year_cols, k - 1)
             yc     == year_cols[k]
             v      == safe_float(RowGet(csv, row, yc, Str(<<>>)))
         IN  IF v = None THEN before
             ELSE Put(before, <<country, DigitsValue(Strip(yc)), indicator>>, NumOf(v))

\* the body of the loop over reader rows: what row n writes into values
StoreRow(csv, country_col, indicator_col, year_cols, n) ==
    LET row       == csv.rows[n]
        country   == Strip(OrEmpty(RowGet(csv, row, country_col, None)))
        indicator == Strip(OrEmpty(RowGet(csv, row, indicator_col, None)))
    IN  IF country = <<>> \/ indicator = <<>> THEN <<>>
        ELSE StoreYears(csv, row, country, indicator, year_cols, Len(year_cols))

\* the loop over reader rows lo..hi, the later row's value replacing the
\* earlier one's under the same key
RECURSIVE StoreRows(_, _, _, _, _, _)
StoreRows(csv, country_col, indicator_col, year_cols, lo, hi) ==
    IF lo > hi THEN <<>>
    ELSE IF lo = hi THEN StoreRow(csv, country_col, indicator_col, year_cols, lo)
    ELSE LET mid == (lo + hi) \div 2
         IN  StoreRows(csv, country_col, indicator_col, year_cols, mid + 1, hi)
             @@ StoreRows(csv, country_col, indicator_col, year_cols, lo, mid)

\* error names the FileNotFoundError or the ValueError raised, if any
load_wb_values_from_zip(zf) ==
    LET data == find_data_csv_in_zip(zf)
    IN  IF ~data.ok THEN [error |-> "no_csv", values |-> <<>>]
        ELSE LET csv           == data.member.csv
                 country_col   == CountryCol(csv.fieldnames)
                 indicator_col == IndicatorCol(csv.fieldnames)
                 year_cols     == YearCols(csv.fieldnames)
             IN  IF country_col = None \/ indicator_col = None
                 THEN [error |-> "no_code_columns", values |-> <<>>]
                 ELSE IF year_cols = <<>>
                 THEN [error |-> "no_year_columns", values |-> <<>>]
                 ELSE [error |-> "none",
                       values |-> StoreRows(csv, country_col.s, indicator_col.s,
                                            year_cols, 1, Len(csv.rows))]

\* ------------------------------------------------------- worksheet helpers

normalize_header(x) == Replace(Lower(Strip(StrOf(x))), "_", " ")

\* the loop of main over the header row: header_map after columns 1..c
RECURSIVE BuildHeaderMap(_, _)
BuildHeaderMap(header_row, c) ==
    IF c = 0 THEN <<>>
    ELSE LET before == BuildHeaderMap(header_row, c - 1)
             val    == header_row[c]
         IN  IF val = None THEN before
             ELSE Put(before, normalize_header(val), c)

\* `if preferred:`
Truthy(preferred) == preferred # None /\ preferred.s # <<>>

\* the first fallback that is a key of header_map, 0 if none is
FirstFallback(header_map, fallbacks) ==
    LET hits == {i \in DOMAIN fallbacks :
                    normalize_header(Str(fallbacks[i])) \in DOMAIN header_map}
    IN  IF hits = {} THEN 0
        ELSE header_map[normalize_header(
                Str(fallbacks[CHOOSE i \in hits : \A j \in hits : i <= j]))]

\* find_header_col going on to the fallbacks when the preferred name is no key
find_header_col_mut(header_map, preferred, fallbacks) ==
    IF Truthy(preferred) /\ normalize_header(preferred) \in DOMAIN header_map
    THEN header_map[normalize_header(preferred)]
    ELSE FirstFallback(header_map, fallbacks)

\* col is 0 when find_header_col raises ValueError
find_header_col(header_map, preferred, fallbacks) ==
    IF Truthy(preferred)
    THEN LET key == normalize_header(preferred)
         IN  IF key \in DOMAIN header_map THEN header_map[key] ELSE 0
    ELSE FirstFallback(header_map, fallbacks)

as_country_code(v) ==
    IF v = None THEN <<>> ELSE Upper(Strip(StrOf(v)))

\* None, or the year as a number cell
as_year(v) ==
    IF v = None THEN None
    ELSE LET s == Strip(StrOf(v))
         IN  IF s = <<>> THEN None
             ELSE LET f == ParseFloat(s)
                  IN  IF f = None THEN None ELSE Num(RatInt(RatTrunc(NumOf(f))))

CountryFallbacks ==
    << <<"c","o","u","n","t","r","y"," ","c","o","d","e">>,
       <<"c","o","u","n","t","r","y">>,
       <<"i","s","o","3">>,
       <<"i","s","o","3"," ","c","o","d","e">>,
       <<"e","c","o","n","o","m","y">> >>

YearFallbacks == << <<"y","e","a","r">>, <<"d","a","t","e">> >>

gov_col_name ==
    <<"g","o","v","_","e","x","p","e","c","t","e","d","_","c","h","a","n","g","e","s">>

\* A worksheet is a sequence of rows of equal length; row 1 is the header row.
max_row(sheet) == Len(sheet)

max_column(sheet) == Len(sheet[1])

\* the sheet with every row padded with empty cells to at least c columns
Widen(sheet, c) ==
    IF c <= max_column(sheet) THEN sheet
    ELSE [i \in DOMAIN sheet |-> sheet[i] \o [j \in 1..(c - Len(sheet[i])) |-> None]]

\* ws.cell(row=r, column=c, value=v): openpyxl's Worksheet.cell fetches (or
\* creates) the cell and assigns `cell.value = value` only `if value is not
\* None`; a call with value=None leaves the cell's content as it was.
CellWrite(sheet, r, c, v) ==
    IF v = None THEN Widen(sheet, c)
    ELSE [Widen(sheet, c) EXCEPT ![r][c] = v]

\* the loop "Ensure delta columns": the worksheet, header_map,
\* delta_col_indices and next_col after the first n mapping entries
RECURSIVE EnsureDeltaColumns(_, _, _, _)
EnsureDeltaColumns(sheet, hmap, mapping_, n) ==
    IF n = 0
    THEN [ws |-> sheet, header_map |-> hmap, delta_col_indices |-> <<>>,
          next_col |-> max_column(sheet) + 1]
    ELSE LET b         == EnsureDeltaColumns(sheet, hmap, mapping_, n - 1)
             delta_col == mapping_[n].delta_col
             key       == normalize_header(Str(delta_col))
         IN  IF key \in DOMAIN b.header_map
             THEN [b EXCEPT !.delta_col_indices =
                       Put(b.delta_col_indices, delta_col, b.header_map[key])]
             ELSE [ws |-> CellWrite(b.ws, 1, b.next_col, Str(delta_col)),
                   header_map |-> Put(b.header_map, key, b.next_col),
                   delta_col_indices |-> Put(b.delta_col_indices, delta_col, b.next_col),
                   next_col |-> b.next_col + 1]

\* ... followed by the same for gov_expected_changes
EnsureColumns(sheet, hmap, mapping_) ==
    LET b       == EnsureDeltaColumns(sheet, hmap, mapping_, Len(mapping_))
        gov_key == normalize_header(Str(gov_col_name))
    IN  IF gov_key \in DOMAIN b.header_map
        THEN [ws |-> b.ws, delta_col_indices |-> b.delta_col_indices,
              gov_col_idx |-> b.header_map[gov_key]]
        ELSE [ws |-> CellWrite(b.ws, 1, b.next_col, Str(gov_col_name)),
              delta_col_indices |-> b.delta_col_indices,
              gov_col_idx |-> b.next_col]

\* d = direction * (cur - pre)
Delta(direction, cur, pre) == RatMul(direction, RatSub(NumOf(cur), NumOf(pre)))

\* the loop over the mapping for a row whose country and year resolved: the
\* worksheet and row_deltas after the first n entries
RECURSIVE WriteDeltas(_, _, _, _, _, _, _, _)
WriteDeltas(sheet, row, country, year, mapping_, values, indices, n) ==
    IF n = 0 THEN [ws |-> sheet, row_deltas |-> <<>>]
    ELSE LET b   == WriteDeltas(sheet, row, country, year, mapping_, values, indices, n - 1)
             e   == mapping_[n]
             cur == Lookup(values, country, year, e.indicator)
             pre == Lookup(values, country, year - 1, e.indicator)
             target_idx == indices[e.delta_col]
         IN  IF cur = None \/ pre = None
             THEN [b EXCEPT !.ws = CellWrite(b.ws, row, target_idx, None)]
             ELSE LET d == Delta(e.direction, cur, pre)
                  IN  [ws |-> CellWrite(b.ws, row, target_idx, Num(d)),
                       row_deltas |-> Append(b.row_deltas, d)]

\* the else branch: value=None into every delta column of the row
RECURSIVE WriteNones(_, _, _, _, _)
WriteNones(sheet, row, mapping_, indices, n) ==
    IF n = 0 THEN sheet
    ELSE CellWrite(WriteNones(sheet, row, mapping_, indices, n - 1),
                   row, indices[mapping_[n].delta_col], None)

\* sum(row_deltas)
RECURSIVE Sum(_)
Sum(ds) == IF ds = <<>> THEN RatInt(0)
           ELSE RatAdd(Sum(SubSeq(ds, 1, Len(ds) - 1)), ds[Len(ds)])

\* statistics.mean(row_deltas), row_deltas non-empty
Mean(ds) == RatMul(Sum(ds), Rat(1, Len(ds)))

\* the value main writes into gov_expected_changes
Aggregate(row_deltas_, agg) ==
    IF row_deltas_ = <<>> THEN None
    ELSE IF agg = "sum" THEN Num(Sum(row_deltas_))
    ELSE Num(Mean(row_deltas_))

\* the body of the loop over data rows for row number row
ProcessRow(sheet, row, country_idx, year_idx, mapping_, values, indices, gov_idx, agg) ==
    LET country == as_country_code(sheet[row][country_idx])
        year    == as_year(sheet[row][year_idx])
        b == IF country # <<>> /\ year # None
             THEN WriteDeltas(sheet, row, country, year.num, mapping_, values,
                              indices, Len(mapping_))
             ELSE [ws |-> WriteNones(sheet, row, mapping_, indices, Len(mapping_)),
                   row_deltas |-> <<>>]
    IN  [ws |-> CellWrite(b.ws, row, gov_idx, Aggregate(b.row_deltas, agg)),
         row_deltas |-> b.row_deltas]

\* ------------------------------------------------------------------ inputs

\* bounds of the input families
MaxCountOff == 1

MaxBlankGroups == 1

MaxRows == 2

MaxRuns == 2

DeltaName(i) == <<"d","e","l","t","a","_">> \o DigitsOf(i)

IndicatorName(i) == <<"I","N","D">> \o DigitsOf(i)

\* record i of a mapping csv: [delta_col, indicator_code, direction]; record 6
\* has no direction field
MappingRecord(shape, i) ==
    LET delta_col == IF shape = "dup" /\ i = 2 THEN DeltaName(1)
                     ELSE IF shape = "year" /\ i = 1 THEN <<"Y","e","a","r">>
                     ELSE DeltaName(i)
        direction == IF i = 3 THEN <<"-","1">>
                     ELSE IF i = 4 THEN <<>>
                     ELSE IF i = 5 THEN <<"u","p">>
                     ELSE IF i = 7 THEN <<" ","1",".","0"," ">>
                     ELSE <<"1">>
    IN  IF i = 6 THEN <<delta_col, IndicatorName(i)>>
        ELSE <<delta_col, IndicatorName(i), direction>>

\* records load_mapping drops: an empty delta_col, a whitespace-only
\* indicator_code, a row that ends before its indicator_code field
BlankRecords(k) ==
    << << <<>>, IndicatorName(k), <<"1">> >>,
       << DeltaName(k), <<" ","\t">>, <<"1">> >>,
       << DeltaName(k) >> >>

\* n full records, and nb times the three records that are dropped: one before
\* the first full record, one after it, one at the end
MappingCsv(shape, n, nb) ==
    LET full == [i \in 1..n |-> MappingRecord(shape, i)]
    IN  [fieldnames |-> <<DELTA_COL, INDICATOR_CODE, DIRECTION>>,
         rows |-> [k \in 1..nb |-> BlankRecords(k)[1]]
                  \o SubSeq(full, 1, 1)
                  \o [k \in 1..nb |-> BlankRecords(k)[2]]
                  \o SubSeq(full, 2, n)
                  \o [k \in 1..nb |-> BlankRecords(k)[3]]]

MappingInputs ==
    {MappingCsv("plain", n, nb) :
        n \in (MappingSize - MaxCountOff)..(MappingSize + MaxCountOff),
        nb \in 0..MaxBlankGroups}
    \cup {MappingCsv(shape, MappingSize, 0) : shape \in {"dup", "year"}}

\* the data csv: for indicator i, year 2014 holds 90, year 2015 holds 90 + i
\* (89.5 and 96.5 for indicator 7) and year 2016 nothing; the 2014 cell of the
\* indicators in blank is not a number.  In the late variant indicator 1 holds
\* 0, 2016 and 2017.  The first row belongs to another country.
DataRow(country, blank, late, i) ==
    LET pre == IF i \in blank
               THEN (IF i % 2 = 0 THEN <<"n","/","a">> ELSE <<" ">>)
               ELSE IF i = 7 THEN <<"8","9",".","5">>
               ELSE <<"9","0">>
        cur == IF i = 7 THEN <<"9","6",".","5">> ELSE DigitsOf(90 + i)
        name == <<"U","n","i","t","e","d"," ","S","t","a","t","e","s">>
    IN  IF late /\ i = 1
        THEN <<name, country, IndicatorName(i), <<"0">>, DigitsOf(2016), DigitsOf(2017)>>
        ELSE <<name, country, IndicatorName(i), pre, cur, <<>> >>

DataCsv(country, blank, late) ==
    [fieldnames |-> << <<"C","o","u","n","t","r","y"," ","N","a","m","e">>,
                       <<"C","o","u","n","t","r","y"," ","C","o","d","e">>,
                       <<"I","n","d","i","c","a","t","o","r","_","C","o","d","e">>,
                       <<" ","2","0","1","4">>,
                       <<"2","0","1","5">>,
                       <<"2","0","1","6">> >>,
     rows |-> << << <<"B","r","i","t","a","i","n">>, <<"G","B","R">>,
                    IndicatorName(1), <<"4","0">>, <<"5","0">>, <<>> >> >>
              \o [i \in 1..MappingSize |-> DataRow(country, blank, late, i)]]

MetadataCsv ==
    [fieldnames |-> << <<"C","o","u","n","t","r","y"," ","C","o","d","e">>,
                       <<"R","e","g","i","o","n">> >>,
     rows |-> << << <<"U","S","A">>, <<"N","A">> >> >>]

Readme == [name |-> <<"r","e","a","d","m","e",".","t","x","t">>, csv |-> None]

Archive(csv) ==
    << Readme,
       [name |-> <<"M","e","t","a","d","a","t","a","_","C","o","u","n","t","r","y",
                   "_","A","P","I",".","c","s","v">>,
        csv |-> MetadataCsv],
       [name |-> <<"A","P","I","_","N","Y","_","D","S","2","_","e","n","_","c","s","v",
                   "_","v","2",".","C","S","V">>,
        csv |-> csv] >>

\* archives that load, and three that do not: no csv member, only the
\* metadata csv (no indicator column), a data csv with no year column
ZipInputs ==
    {Archive(DataCsv(<<"U","S","A">>, blank, FALSE)) :
        blank \in {{}, {2}, 1..MappingSize}}
    \cup {Archive(DataCsv(<<"u","s","a">>, {}, FALSE)),
          Archive(DataCsv(<<"U","S","A">>, {}, TRUE))}
    \cup { <<Readme>>,
           SubSeq(Archive(MetadataCsv), 1, 2),
           Archive([fieldnames |-> << <<"C","o","u","n","t","r","y"," ","C","o","d","e">>,
                                      <<"I","n","d","i","c","a","t","o","r","_","C","o","d","e">>,
                                      <<"S","e","r","i","e","s">> >>,
                    rows |-> <<>>]) }

\* the (country cell, year cell) pairs guide rows are drawn from
GuideRowPool ==
    << [country |-> Str(<<"u","s","a">>),         year |-> Num(RatInt(2015))],
       [country |-> None,                         year |-> Num(RatInt(2015))],
       [country |-> Str(<<" ","U","S","A"," ">>), year |-> Str(<<"2","0","1","5",".","9">>)],
       [country |-> Str(<<"U","S","A">>),         year |-> Str(<<"n","/","a">>)],
       [country |-> Str(<<"U","S","A">>),         year |-> Num(RatInt(2016))],
       [country |-> Str(<<"G","B","R">>),         year |-> Num(RatInt(2015))] >>

\* header rows of a guide, with what the data rows hold under each header
GuideShapes ==
    { [header |-> << Str(<<"C","o","u","n","t","r","y","_","C","o","d","e">>),
                     Str(<<" ","Y","e","a","r"," ">>) >>,
       roles  |-> <<"country", "year">>],
      [header |-> << Str(<<"e","c","o","n","o","m","y">>), Str(<<"I","S","O","3">>),
                     None, Str(<<"D","a","t","e">>) >>,
       roles  |-> <<"text", "country", "blank", "year">>],
      [header |-> << Str(<<"N","a","m","e">>), Str(<<"Y","e","a","r">>) >>,
       roles  |-> <<"country", "year">>],
      [header |-> << Str(<<"c","o","u","n","t","r","y">>), Str(<<"y","e","a","r">>),
                     Str(<<"D","e","l","t","a","_","1">>),
                     Str(<<"G","O","V"," ","E","X","P","E","C","T","E","D"," ",
                           "C","H","A","N","G","E","S">>),
                     Str(<<"d","e","l","t","a","_","1","9">>) >>,
       roles  |-> <<"country", "year", "text", "number", "number">>],
      [header |-> << Str(<<"c","o","u","n","t","r","y">>) >>,
       roles  |-> <<"country">>] }

OldText == Str(<<"o","l","d">>)

OldNumber == Num(RatInt(999))

GuideCell(role, pick) ==
    IF role = "country" THEN pick.country
    ELSE IF role = "year" THEN pick.year
    ELSE IF role = "text" THEN OldText
    ELSE IF role = "number" THEN OldNumber
    ELSE None

\* a guide with nrows data rows, drawn from the pool starting at first
Guide(shape, first, nrows) ==
    <<shape.header>>
    \o [k \in 1..nrows |->
          [j \in DOMAIN shape.roles |->
              GuideCell(shape.roles[j],
                        GuideRowPool[((first + k - 2) % Len(GuideRowPool)) + 1])]]

GuideInputs ==
    {Guide(shape, first, nrows) :
        shape \in GuideShapes, first \in DOMAIN GuideRowPool, nrows \in 0..MaxRows}

\* --country-col, --year-col, --agg
ArgsInputs ==
    { [country_col |-> None, year_col |-> None, agg |-> "mean"],
      [country_col |-> Str(<<>>), year_col |-> Str(<<"D","A","T","E">>), agg |-> "mean"],
      [country_col |-> Str(<<"N","a","m","e">>), year_col |-> None, agg |-> "sum"],
      [country_col |-> Str(<<"C","O","U","N","T","R","Y","_","c","o","d","e">>),
       year_col |-> Str(<<"Y","E","A","R">>), agg |-> "sum"],
      [country_col |-> None, year_col |-> Str(<<"p","e","r","i","o","d">>), agg |-> "mean"] }

\* ------------------------------------------------------------- the run

VARIABLES
    args,               \* the parsed command line
    pc,                 \* where main is
    run,                \* 1 for the first run; a later run reads the output back
    mapping_csv,        \* the file at --mapping-csv, once read
    mapping,            \* load_mapping's list
    zip,                \* the archive at --wb-zip, once read
    wb_values,          \* load_wb_values_from_zip's dict
    guide,              \* the worksheet of the file at --guide-xlsx, once read
    ws,                 \* the worksheet in memory
    output,             \* the worksheet of the file at --output; <<>> if none
    header_map,
    country_col_idx,
    year_col_idx,
    delta_col_indices,
    gov_col_idx,
    r,                  \* the next data row
    row_deltas,         \* row_deltas of the row processed last
    error               \* the exception that ended the run, "none" if none

vars == <<args, pc, run, mapping_csv, mapping, zip, wb_values, guide, ws, output,
          header_map, country_col_idx, year_col_idx, delta_col_indices,
          gov_col_idx, r, row_deltas, error>>

Init ==
    /\ args \in ArgsInputs
    /\ pc = "load_mapping"
    /\ run = 1
    /\ mapping_csv = <<>>
    /\ mapping = <<>>
    /\ zip = <<>>
    /\ wb_values = <<>>
    /\ guide = <<>>
    /\ ws = <<>>
    /\ output = <<>>
    /\ header_map = <<>>
    /\ country_col_idx = 0
    /\ year_col_idx = 0
    /\ delta_col_indices = <<>>
    /\ gov_col_idx = 0
    /\ r = 0
    /\ row_deltas = <<>>
    /\ error = "none"

\* mapping = load_mapping(args.mapping_csv)
LoadMapping ==
    /\ pc = "load_mapping"
    /\ \E m \in (IF run = 1 THEN MappingInputs ELSE {mapping_csv}) :
          LET res == load_mapping(m)
          IN  /\ mapping_csv' = m
              /\ mapping' = res.out
              /\ error' = res.error
              /\ pc' = IF res.error = "none" THEN "load_wb_values" ELSE "failed"
    /\ UNCHANGED <<args, run, zip, wb_values, guide, ws, output, header_map,
                   country_col_idx, year_col_idx, delta_col_indices,
                   gov_col_idx, r, row_deltas>>

\* wb_values = load_wb_values_from_zip(args.wb_zip)
LoadWbValues ==
    /\ pc = "load_wb_values"
    /\ \E z \in (IF run = 1 THEN ZipInputs ELSE {zip}) :
          LET res == load_wb_values_from_zip(z)
          IN  /\ zip' = z
              /\ wb_values' = res.values
              /\ error' = res.error
              /\ pc' = IF res.error = "none" THEN "load_workbook" ELSE "failed"
    /\ UNCHANGED <<args, run, mapping_csv, mapping, guide, ws, output, header_map,
                   country_col_idx, year_col_idx, delta_col_indices,
                   gov_col_idx, r, row_deltas>>

\* wb = load_workbook(...); ws = ...; the header index map
LoadWorkbook ==
    /\ pc = "load_workbook"
    /\ \E g \in (IF run = 1 THEN GuideInputs ELSE {guide}) :
          /\ guide' = g
          /\ ws' = g
          /\ header_map' = BuildHeaderMap(g[1], max_column(g))
    /\ pc' = "find_header_col"
    /\ UNCHANGED <<args, run, mapping_csv, mapping, zip, wb_values, output,
                   country_col_idx, year_col_idx, delta_col_indices,
                   gov_col_idx, r, row_deltas, error>>

\* country_col_idx = find_header_col(...); year_col_idx = find_header_col(...)
FindHeaderCols ==
    /\ pc = "find_header_col"
    /\ LET c == find_header_col(header_map, args.country_col, CountryFallbacks)
           y == find_header_col(header_map, args.year_col, YearFallbacks)
       IN  /\ country_col_idx' = c
           /\ year_col_idx' = IF c = 0 THEN 0 ELSE y
           /\ error' = IF c = 0 THEN "country_col_not_found"
                       ELSE IF y = 0 THEN "year_col_not_found"
                       ELSE "none"
           /\ pc' = IF c = 0 \/ y = 0 THEN "failed" ELSE "ensure_columns"
    /\ UNCHANGED <<args, run, mapping_csv, mapping, zip, wb_values, guide, ws,
                   output, header_map, delta_col_indices, gov_col_idx, r,
                   row_deltas>>

\* "Ensure delta columns + gov_expected_changes exist."
EnsureCols ==
    /\ pc = "ensure_columns"
    /\ LET e == EnsureColumns(ws, header_map, mapping)
       IN  /\ ws' = e.ws
           /\ delta_col_indices' = e.delta_col_indices
           /\ gov_col_idx' = e.gov_col_idx
    /\ r' = 2
    /\ pc' = "rows"
    /\ UNCHANGED <<args, run, mapping_csv, mapping, zip, wb_values, guide, output,
                   header_map, country_col_idx, year_col_idx, row_deltas, error>>

\* one iteration of `for r in range(2, ws.max_row + 1)`
EnrichRow ==
    /\ pc = "rows"
    /\ r <= max_row(ws)
    /\ LET p == ProcessRow(ws, r, country_col_idx, year_col_idx, mapping,
                           wb_values, delta_col_indices, gov_col_idx, args.agg)
       IN  /\ ws' = p.ws
           /\ row_deltas' = p.row_deltas
    /\ r' = r + 1
    /\ UNCHANGED <<args, pc, run, mapping_csv, mapping, zip, wb_values, guide,
                   output, header_map, country_col_idx, year_col_idx,
                   delta_col_indices, gov_col_idx, error>>

\* wb.save(args.output) moved into the loop over the rows
Save_mut ==
    /\ pc = "rows"
    /\ output' = ws
    /\ pc' = IF r > max_row(ws) THEN "done" ELSE "rows"
    /\ UNCHANGED <<args, run, mapping_csv, mapping, zip, wb_values, guide, ws,
                   header_map, country_col_idx, year_col_idx, delta_col_indices,
                   gov_col_idx, r, row_deltas, error>>

\* wb.save(args.output)
Save ==
    /\ pc = "rows"
    /\ r > max_row(ws)
    /\ output' = ws
    /\ pc' = "done"
    /\ UNCHANGED <<args, run, mapping_csv, mapping, zip, wb_values, guide, ws,
                   header_map, country_col_idx, year_col_idx, delta_col_indices,
                   gov_col_idx, r, row_deltas, error>>

\* the script is run again with the same arguments, the guide now being the
\* file the previous run saved
Rerun ==
    /\ pc = "done"
    /\ run < MaxRuns
    /\ run' = run + 1
    /\ guide' = output
    /\ pc' = "load_mapping"
    /\ mapping' = <<>>
    /\ wb_values' = <<>>
    /\ ws' = <<>>
    /\ header_map' = <<>>
    /\ country_col_idx' = 0
    /\ year_col_idx' = 0
    /\ delta_col_indices' = <<>>
    /\ gov_col_idx' = 0
    /\ r' = 0
    /\ row_deltas' = <<>>
    /\ UNCHANGED <<args, mapping_csv, zip, output, error>>

Next ==
    \/ LoadMapping
    \/ LoadWbValues
    \/ LoadWorkbook
    \/ FindHeaderCols
    \/ EnsureCols
    \/ EnrichRow
    \/ Save
    \/ Rerun

Spec == Init /\ [][Next]_vars

\* ------------------------------------------------------------ properties

\* the data rows the current run has processed
Processed == IF pc \in {"rows", "done"} THEN 2..(r - 1) ELSE {}

\* the country and year the run read from a row (the loop reads them before
\* it writes the row, so they are the cells of the guide as loaded)
RowCountry(row) == as_country_code(guide[row][country_col_idx])

RowYear(row) == as_year(guide[row][year_col_idx])

Resolved(row) == RowCountry(row) # <<>> /\ RowYear(row) # None

Entries == DOMAIN mapping

Column(i) == delta_col_indices[mapping[i].delta_col]

DerivedColumns == {Column(i) : i \in Entries} \cup {gov_col_idx}

\* entry i is the only writer of its column
OwnColumn(i) ==
    /\ \A j \in Entries : j # i => Column(j) # Column(i)
    /\ Column(i) \notin {gov_col_idx, country_col_idx, year_col_idx}

\* the delta of entry i for a row: direction * (cur - pre), absent if the row
\* did not resolve or either value is missing from the value store
ExpectedDelta(row, i) ==
    IF ~Resolved(row) THEN None
    ELSE LET key(y) == <<RowCountry(row), y, mapping[i].indicator>>
             year   == RowYear(row).num
         IN  IF key(year) \in DOMAIN wb_values /\ key(year - 1) \in DOMAIN wb_values
             THEN Num(RatMul(mapping[i].direction,
                             RatSub(wb_values[key(year)], wb_values[key(year - 1)])))
             ELSE None

Present(row) == {i \in Entries : ExpectedDelta(row, i) # None}

RECURSIVE SumOver(_, _)
SumOver(row, S) ==
    IF S = {} THEN RatInt(0)
    ELSE LET i == CHOOSE x \in S : TRUE
         IN  RatAdd(NumOf(ExpectedDelta(row, i)), SumOver(row, S \ {i}))

\* the aggregate of a row: absent without deltas, else their mean or sum
ExpectedAggregate(row) ==
    LET total == SumOver(row, Present(row))
        count == Cardinality(Present(row))
    IN  IF count = 0 THEN None
        ELSE IF args.agg = "sum" THEN Num(total)
        ELSE Num(Rat(total.num, total.den * count))

\* C1: for every processed row whose country and year resolve and every
\* mapping entry (here: every entry that alone writes its column), the cell
\* holds direction * (cur - pre) when both values are in the store and is
\* empty when one is missing; row_deltas holds exactly the present deltas, in
\* table order.
C1_DeltaWritten ==
    \A row \in Processed :
        Resolved(row) =>
            /\ \A i \in Entries :
                  OwnColumn(i) => ws[row][Column(i)] = ExpectedDelta(row, i)
            /\ row = r - 1 =>
                  LET ds == SelectSeq([i \in Entries |-> ExpectedDelta(row, i)],
                                      LAMBDA d : d # None)
                  IN  row_deltas = [k \in DOMAIN ds |-> NumOf(ds[k])]

\* C2: for every processed row the gov_expected_changes cell is empty exactly
\* when the row has no delta, and otherwise holds the mean (mode mean) or the
\* sum (mode sum) of the row's present deltas.
C2_Aggregate ==
    \A row \in Processed : ws[row][gov_col_idx] = ExpectedAggregate(row)

DataFile == find_data_csv_in_zip(zip).member.csv

\* C3: every dataset cell with a parseable value, under a year column, in a
\* row whose country code equals the guide row's up to letter case, is what
\* the lookup for that (country, year, indicator) returns while the guide row
\* is processed.
C3_LookupFindsDatasetValue ==
    \A row \in Processed :
        Resolved(row) =>
            \A n \in DOMAIN DataFile.rows, k \in DOMAIN DataFile.fieldnames :
                LET rec       == DataFile.rows[n]
                    country   == Strip(OrEmpty(RowGet(DataFile, rec,
                                     CountryCol(DataFile.fieldnames).s, None)))
                    indicator == Strip(OrEmpty(RowGet(DataFile, rec,
                                     IndicatorCol(DataFile.fieldnames).s, None)))
                    yc        == DataFile.fieldnames[k]
                    v         == safe_float(RowGet(DataFile, rec, yc, None))
                IN  ( /\ IsDigit(Strip(yc))
                      /\ v # None
                      /\ Upper(country) = RowCountry(row)
                      /\ DigitsValue(Strip(yc)) \in {RowYear(row).num, RowYear(row).num - 1}
                      /\ \E i \in Entries : mapping[i].indicator = indicator )
                    => Lookup(wb_values, RowCountry(row), DigitsValue(Strip(yc)),
                              indicator) = v

IsBlank(s) == \A i \in DOMAIN s : s[i] \in Whitespace

\* the records of a mapping csv that name a destination and an indicator
ValidRecords(csv) ==
    {n \in DOMAIN csv.rows :
        /\ ~IsBlank(OrEmpty(RowGet(csv, csv.rows[n], DELTA_COL, None)))
        /\ ~IsBlank(OrEmpty(RowGet(csv, csv.rows[n], INDICATOR_CODE, None)))}

\* C4: load_mapping raises its count error exactly when the number of records
\* with a non-blank delta_col and a non-blank indicator_code is not 19, and
\* otherwise returns 19 entries.
C4_MappingCount ==
    (mapping_csv # <<>> /\ pc # "load_mapping") =>
        /\ (error = "mapping_count")
              <=> (Cardinality(ValidRecords(mapping_csv)) # MappingSize)
        /\ error # "mapping_count" => Len(mapping) = MappingSize

\* C4 witness: a mapping csv with dropped records was accepted
C4_Witness ==
    /\ pc = "load_wb_values"
    /\ Len(mapping_csv.rows) > MappingSize
    /\ Cardinality(ValidRecords(mapping_csv)) = MappingSize

\* what the output path held when the run started
PriorOutput == IF run = 1 THEN <<>> ELSE guide

\* C5: the output is written only by a run that reached its end with the
\* mapping validated, the columns resolved and every row processed; a failed
\* run has modified no cell of the worksheet and written no output.
C5_OutputOnlyOnSuccess ==
    /\ pc # "done" => output = PriorOutput
    /\ pc = "failed" => error # "none" /\ ws \in {<<>>, guide}
    /\ pc = "done" =>
          /\ error = "none"
          /\ Len(mapping) = MappingSize
          /\ country_col_idx > 0 /\ year_col_idx > 0
          /\ r = max_row(ws) + 1
          /\ output = ws

\* C5 witness: the run failed on the year column with the workbook loaded
C5_Witness ==
    /\ pc = "failed"
    /\ error = "year_col_not_found"
    /\ ws = guide
    /\ max_row(guide) > 1

\* header name matches the header cell of column c of the guide
Matches(name, c) ==
    /\ guide[1][c] # None
    /\ normalize_header(guide[1][c]) = normalize_header(Str(name))

\* the last column whose header matches name, 0 if none
LastMatch(name) ==
    LET cs == {c \in DOMAIN guide[1] : Matches(name, c)}
    IN  IF cs = {} THEN 0 ELSE CHOOSE c \in cs : \A d \in cs : d <= c

FallbackMatches(fallbacks) == \E i \in DOMAIN fallbacks : LastMatch(fallbacks[i]) > 0

\* the column an override and a fallback list resolve to, 0 for the error: the
\* override alone if one is given, else the first fallback with a match
ExpectedCol(override, fallbacks) ==
    IF override # None /\ override.s # <<>> THEN LastMatch(override.s)
    ELSE IF ~FallbackMatches(fallbacks) THEN 0
    ELSE LastMatch(fallbacks[CHOOSE i \in DOMAIN fallbacks :
                      /\ LastMatch(fallbacks[i]) > 0
                      /\ \A j \in 1..(i - 1) : LastMatch(fallbacks[j]) = 0])

\* the two calls of find_header_col have just returned or raised
ColumnsTried ==
    \/ pc = "ensure_columns"
    \/ pc = "failed" /\ error \in {"country_col_not_found", "year_col_not_found"}

\* C6 as stated: resolution fails only when neither the override nor any
\* fallback spelling matches a header.
C6_FailsOnlyIfNothingMatches ==
    /\ error = "country_col_not_found" => ~FallbackMatches(CountryFallbacks)
    /\ error = "year_col_not_found" => ~FallbackMatches(YearFallbacks)

\* C6 amended: a non-empty override is the only name tried, and resolution
\* fails when it matches no header, whatever the fallbacks would match; with
\* no override (or an empty one) the first fallback spelling, in list order,
\* that matches a header wins, and resolution fails only when none matches.
C6_OverrideExcludesFallbacks ==
    ColumnsTried =>
        /\ country_col_idx = ExpectedCol(args.country_col, CountryFallbacks)
        /\ (error = "country_col_not_found") <=> (country_col_idx = 0)
        /\ country_col_idx # 0 =>
              /\ year_col_idx = ExpectedCol(args.year_col, YearFallbacks)
              /\ (error = "year_col_not_found") <=> (year_col_idx = 0)

\* C6 witness: the override matched nothing, a fallback would have, and
\* resolution failed
C6_Witness ==
    /\ pc = "failed"
    /\ error = "country_col_not_found"
    /\ args.country_col # None /\ args.country_col.s # <<>>
    /\ FallbackMatches(CountryFallbacks)

\* C7: a run over the output of the previous run creates no column and
\* leaves every derived cell as the previous run wrote it.
C7_RerunIdempotent ==
    (pc = "done" /\ run > 1) =>
        /\ max_column(ws) = max_column(guide)
        /\ \A row \in 2..max_row(ws), c \in DerivedColumns :
              ws[row][c] = guide[row][c]

\* C8: a finished run has left the number of rows and the country and year
\* cell of every data row as they were in the guide.
C8_KeysPreserved ==
    pc = "done" =>
        /\ max_row(ws) = max_row(guide)
        /\ \A row \in 2..max_row(guide) :
              /\ ws[row][country_col_idx] = guide[row][country_col_idx]
              /\ ws[row][year_col_idx] = guide[row][year_col_idx]

\* C9: in every processed row each derived cell is empty or holds a value
\* computed for that row (a delta of an entry of that column, or the
\* aggregate in the aggregate column), and every derived cell of a row whose
\* country or year did not resolve is empty.
C9_NoStaleCells ==
    \A row \in Processed :
        /\ ~Resolved(row) => \A c \in DerivedColumns : ws[row][c] = None
        /\ \A c \in DerivedColumns :
              ws[row][c] \in
                  ({None} \cup {ExpectedDelta(row, i) : i \in {j \in Entries : Column(j) = c}}
                          \cup (IF c = gov_col_idx THEN {ExpectedAggregate(row)} ELSE {}))

\* C10: where several entries name the same destination column, the cell of
\* every processed row holds the outcome of the last of them: its delta, or
\* nothing if its delta is absent.
C10_LastEntryWins ==
    \A row \in Processed :
        \A i, j \in Entries :
            ( /\ i < j
              /\ mapping[i].delta_col = mapping[j].delta_col
              /\ \A k \in Entries : k > j => mapping[k].delta_col # mapping[j].delta_col
              /\ Column(j) # gov_col_idx )
            => ws[row][Column(j)] = ExpectedDelta(row, j)

====
